---- MODULE Spec2Model ----
(***************************************************************************)
(* Model of the metering pipeline of the JSON-RPC relay                    *)
(* (packages/relay/src/lib/services/metricService/metricService.ts).       *)
(*                                                                         *)
(* The event bus is a synchronous EventEmitter: emit() runs the subscribed *)
(* handler on the publisher's call stack.  The handlers start async        *)
(* functions, which run synchronously up to their first await and are      *)
(* resumed later, one continuation at a time, when the call stack is       *)
(* empty.  Every published event has one task, tasks[e], that records how  *)
(* far the handler's work for that event has got.                          *)
(***************************************************************************)
EXTENDS Integers, Sequences, FiniteSets, TLC

\* ------------------------------------------------------------------ bounds
MaxEvents == 2
MaxCost == 1
MaxGas == 1
MaxBlock == 1
MaxEntries == 2

\* ------------------------------------------------------- value universes
Undefined == "undefined"

\* constants.EXECUTION_MODE
EXECUTION_MODE == [TRANSACTION |-> "TRANSACTION", QUERY |-> "QUERY", RECORD |-> "RECORD"]

Methods == {"eth_call", "eth_getStorageAt"}
Types == {"EthereumTransaction"}
Statuses == {"SUCCESS"}
Addresses == {"0xA", "0xB"}

\* ITransactionRecordMetric
Records ==
  [gasUsed : 0..MaxGas, transactionFee : 0..MaxCost,
   txRecordChargeAmount : 0..MaxCost, status : Statuses]

\* placeholder held by a task that has no record
NoRecord == [gasUsed |-> 0, transactionFee |-> 0, txRecordChargeAmount |-> 0, status |-> Undefined]

\* what a record source (sdkClient / mirrorNodeClient) does with a lookup
SourceOutcomes ==
  {[ok |-> TRUE, rec |-> r] : r \in Records} \cup {[ok |-> FALSE, rec |-> NoRecord]}

VARIABLES
  defaultToConsensusNode, \* ConfigService.get('GET_RECORD_DEFAULT_TO_CONSENSUS_NODE')
  tasks,                  \* per published event: the state of its handler's work
  stack,                  \* the synchronous call stack of the publisher
  emissions,              \* per event: payloads passed to addExpenseAndCaptureMetrics, in call order
  expenses,               \* per event: hbarLimitService.addExpense calls, in call order
  costObs,                \* per event: consensusNodeClientHistogramCost observations
  gasObs,                 \* per event: consensusNodeClientHistogramGasFee observations
  ethExecutionsCounter,   \* ethExecutionsCounter, by method label
  warned,                 \* events for which logger.warn was called
  unhandledRejections,    \* events whose handler promise rejected with no rejection handler
  mirrorBlocks,           \* mirror node: the number of blocks it knows (0 .. mirrorBlocks - 1)
  storageCall,            \* the getStorageAt call in progress, or the one that ended last
  storagePrev,            \* the getStorageAt call that ended before storageCall started
  processEnv,             \* process.env
  envFile,                \* the .env file that findConfig finds, if any
  instance,               \* ConfigService.instance
  configResult            \* what the last ConfigService call did

metricVars ==
  <<defaultToConsensusNode, tasks, stack, emissions, expenses, costObs, gasObs,
    ethExecutionsCounter, warned, unhandledRejections>>
storageVars == <<mirrorBlocks, storageCall, storagePrev>>
configVars == <<processEnv, envFile, instance, configResult>>

vars == <<metricVars, storageVars, configVars>>

\* ---------------------------------------------------------- pure helpers

\* originalCallerAddress ?? ''
Nullish(a) == IF a = Undefined THEN "" ELSE a

\* variant: the branches of the switch exchanged
SelectedSource_Swapped(switch) == IF switch THEN "mirror" ELSE "sdk"

\* variant: the handler returns without calling a record source
SelectedSource_None(switch) == "none"

\* the strategy chosen by the switch in getTransactionRecordMetrics
SelectedSource(switch) == IF switch THEN "sdk" ELSE "mirror"

\* variant: a failed lookup yields a zero-valued record
GetTransactionRecordMetrics_ZeroRecord(outcome) ==
  IF outcome.ok
    THEN [kind |-> "record", rec |-> outcome.rec]
    ELSE [kind |-> "record", rec |-> [NoRecord EXCEPT !.status = ""]]

\* variant: the catch block rethrows
GetTransactionRecordMetrics_Rethrow(outcome) ==
  IF outcome.ok
    THEN [kind |-> "record", rec |-> outcome.rec]
    ELSE [kind |-> "raised", rec |-> NoRecord]

\* getTransactionRecordMetrics: the try/catch around the chosen strategy.
\* The result is what the async function settles with.
GetTransactionRecordMetrics(outcome) ==
  IF outcome.ok
    THEN [kind |-> "record", rec |-> outcome.rec]
    ELSE [kind |-> "absent", rec |-> NoRecord]

NoResult == [kind |-> "none", rec |-> NoRecord]

\* variant: the fee is emitted whether or not it is zero
NextMode_FeeUnfiltered(rec, after) ==
  IF after = "start"
    THEN EXECUTION_MODE.TRANSACTION
  ELSE IF after = EXECUTION_MODE.TRANSACTION /\ rec.txRecordChargeAmount # 0
    THEN EXECUTION_MODE.RECORD
  ELSE "none"

\* variant: the record charge is emitted whether or not it is zero
NextMode_ChargeUnfiltered(rec, after) ==
  IF after = "start" /\ rec.transactionFee # 0
    THEN EXECUTION_MODE.TRANSACTION
  ELSE IF after \in {"start", EXECUTION_MODE.TRANSACTION}
    THEN EXECUTION_MODE.RECORD
  ELSE "none"

\* variant: the record charge is emitted before the fee
NextMode_RecordFirst(rec, after) ==
  IF after = "start" /\ rec.txRecordChargeAmount # 0
    THEN EXECUTION_MODE.RECORD
  ELSE IF after \in {"start", EXECUTION_MODE.RECORD} /\ rec.transactionFee # 0
    THEN EXECUTION_MODE.TRANSACTION
  ELSE "none"

\* captureTransactionMetrics: which emission comes next, given the record and
\* the emission that has just completed ("start" when none has been made).
NextMode(rec, after) ==
  IF after = "start" /\ rec.transactionFee # 0
    THEN EXECUTION_MODE.TRANSACTION
  ELSE IF after \in {"start", EXECUTION_MODE.TRANSACTION} /\ rec.txRecordChargeAmount # 0
    THEN EXECUTION_MODE.RECORD
  ELSE "none"

\* variant: the caller is taken from the event published last, as if the
\* handlers shared it
SynthesizedPayload_LastCaller(t, mode) ==
  [executionMode |-> mode,
   txConstructorName |-> t.txConstructorName,
   cost |-> IF mode = EXECUTION_MODE.TRANSACTION
              THEN t.result.rec.transactionFee ELSE t.result.rec.txRecordChargeAmount,
   gasUsed |-> IF mode = EXECUTION_MODE.TRANSACTION THEN t.result.rec.gasUsed ELSE 0,
   status |-> t.result.rec.status, requestDetails |-> t.requestDetails,
   originalCallerAddress |-> tasks[Len(tasks)].originalCallerAddress]

\* captureTransactionMetrics: the payload synthesized for a mode
SynthesizedPayload(t, mode) ==
  IF mode = EXECUTION_MODE.TRANSACTION
    THEN [executionMode |-> EXECUTION_MODE.TRANSACTION,
          txConstructorName |-> t.txConstructorName,
          cost |-> t.result.rec.transactionFee, gasUsed |-> t.result.rec.gasUsed,
          status |-> t.result.rec.status, requestDetails |-> t.requestDetails,
          originalCallerAddress |-> t.originalCallerAddress]
    ELSE [executionMode |-> EXECUTION_MODE.RECORD,
          txConstructorName |-> t.txConstructorName,
          cost |-> t.result.rec.txRecordChargeAmount, gasUsed |-> 0,
          status |-> t.result.rec.status, requestDetails |-> t.requestDetails,
          originalCallerAddress |-> t.originalCallerAddress]

\* addExpenseAndCaptureMetrics: the arguments of hbarLimitService.addExpense
AddExpenseArgs(p) ==
  [cost |-> p.cost, ethAddress |-> Nullish(p.originalCallerAddress),
   requestDetails |-> p.requestDetails]

\* variant: the type and status labels exchanged
CostObservation_LabelsSwapped(p) ==
  [labels |-> <<p.executionMode, p.status, p.txConstructorName>>, value |-> p.cost]

\* captureMetrics: the observation made in the cost histogram
CostObservation(p) ==
  [labels |-> <<p.executionMode, p.txConstructorName, p.status>>, value |-> p.cost]

\* captureMetrics: the observation made in the gas-fee histogram
GasObservation(p) ==
  [labels |-> <<p.executionMode, p.txConstructorName, p.status>>, value |-> p.gasUsed]

\* variant: a continuation may run once the handler has returned, inside emit()
CallStackEmpty_InsideEmit == stack.at # "handler"

\* variant: a continuation may run while the handler is still on the stack
CallStackEmpty_InsideHandler == stack.at # "emitted"

\* variant: the increment is applied to every label
Inc_EveryLabel(counter, method) == [m \in DOMAIN counter |-> counter[m] + 1]

\* ethExecutionsCounter.labels(method).inc()
Inc(counter, method) == [counter EXCEPT ![method] = counter[method] + 1]

\* a continuation of an async function runs only when the call stack is empty
CallStackEmpty == stack.at = "idle"

\* the events whose emit() has returned control to the publisher
published == {e \in 1..Len(tasks) : stack.ev # e}

\* ----------------------------------------------------------------- Init
MetricInit ==
  /\ defaultToConsensusNode \in BOOLEAN
  /\ tasks = <<>>
  /\ stack = [at |-> "idle", ev |-> 0]
  /\ emissions = <<>>
  /\ expenses = <<>>
  /\ costObs = <<>>
  /\ gasObs = <<>>
  /\ ethExecutionsCounter = [m \in Methods |-> 0]
  /\ warned = {}
  /\ unhandledRejections = {}

\* a new task record
NewTask(kind, pc, type, caller, req, method) ==
  [kind |-> kind, pc |-> pc, txConstructorName |-> type,
   originalCallerAddress |-> caller, requestDetails |-> req, method |-> method,
   sdkCalls |-> 0, mirrorCalls |-> 0, lookup |-> "none", result |-> NoResult]

\* addExpenseAndCaptureMetrics up to its await, for event e whose logs are
\* E (emissions) and X (expenses): the payload is logged and addExpense is
\* called with its arguments.
CallAddExpenseAndCaptureMetrics(e, p, E, X) ==
  /\ emissions' = [emissions EXCEPT ![e] = Append(E, p)]
  /\ expenses' = [expenses EXCEPT ![e] = Append(X, [args |-> AddExpenseArgs(p),
                                                      state |-> "pending"])]

\* ------------------------------------------------------------ publishing

\* eventEmitter.emit(EXECUTE_TRANSACTION, args): the handler calls
\* captureTransactionMetrics, which calls getTransactionRecordMetrics, which
\* reads the switch and calls the chosen source; the await suspends it.
EmitExecuteTransaction(type, caller) ==
  /\ CallStackEmpty
  /\ Len(tasks) < MaxEvents
  /\ LET e == Len(tasks) + 1
         src == SelectedSource(defaultToConsensusNode)
         t == NewTask("TX", "awaitLookup", type, caller, e, Undefined)
     IN /\ tasks' = Append(tasks, [t EXCEPT !.sdkCalls = IF src = "sdk" THEN 1 ELSE 0,
                                            !.mirrorCalls = IF src = "mirror" THEN 1 ELSE 0,
                                            !.lookup = "pending"])
        /\ stack' = [at |-> "handler", ev |-> e]
  /\ emissions' = Append(emissions, <<>>)
  /\ expenses' = Append(expenses, <<>>)
  /\ costObs' = Append(costObs, <<>>)
  /\ gasObs' = Append(gasObs, <<>>)
  /\ UNCHANGED <<defaultToConsensusNode, ethExecutionsCounter, warned, unhandledRejections>>
  /\ UNCHANGED <<storageVars, configVars>>

\* eventEmitter.emit(EXECUTE_QUERY, args): the handler calls
\* addExpenseAndCaptureMetrics(args), which calls addExpense and awaits it.
EmitExecuteQuery(type, caller, cost, gas, status) ==
  /\ CallStackEmpty
  /\ Len(tasks) < MaxEvents
  /\ LET e == Len(tasks) + 1
         p == [executionMode |-> EXECUTION_MODE.QUERY, txConstructorName |-> type,
               cost |-> cost, gasUsed |-> gas, status |-> status, requestDetails |-> e,
               originalCallerAddress |-> caller]
     IN /\ tasks' = Append(tasks, NewTask("QUERY", "awaitExpense", type, caller, e, Undefined))
        /\ emissions' = Append(emissions, <<p>>)
        /\ expenses' = Append(expenses, <<[args |-> AddExpenseArgs(p), state |-> "pending"]>>)
        /\ stack' = [at |-> "handler", ev |-> e]
  /\ costObs' = Append(costObs, <<>>)
  /\ gasObs' = Append(gasObs, <<>>)
  /\ UNCHANGED <<defaultToConsensusNode, ethExecutionsCounter, warned, unhandledRejections>>
  /\ UNCHANGED <<storageVars, configVars>>

\* eventEmitter.emit(ETH_EXECUTION, args): the counter of the method is incremented
EmitEthExecution(method) ==
  /\ CallStackEmpty
  /\ Len(tasks) < MaxEvents
  /\ LET e == Len(tasks) + 1
     IN /\ tasks' = Append(tasks, NewTask("ETH", "done", Undefined, Undefined, e, method))
        /\ stack' = [at |-> "handler", ev |-> e]
  /\ ethExecutionsCounter' = Inc(ethExecutionsCounter, method)
  /\ emissions' = Append(emissions, <<>>)
  /\ expenses' = Append(expenses, <<>>)
  /\ costObs' = Append(costObs, <<>>)
  /\ gasObs' = Append(gasObs, <<>>)
  /\ UNCHANGED <<defaultToConsensusNode, warned, unhandledRejections>>
  /\ UNCHANGED <<storageVars, configVars>>

\* the handler (an arrow function that awaits nothing) returns
HandlerExit ==
  /\ stack.at = "handler"
  /\ stack' = [stack EXCEPT !.at = "emitted"]
  /\ UNCHANGED <<defaultToConsensusNode, tasks, emissions, expenses, costObs, gasObs,
                 ethExecutionsCounter, warned, unhandledRejections>>
  /\ UNCHANGED <<storageVars, configVars>>

\* emit() returns control to the publisher
EmitReturn ==
  /\ stack.at = "emitted"
  /\ stack' = [at |-> "idle", ev |-> 0]
  /\ UNCHANGED <<defaultToConsensusNode, tasks, emissions, expenses, costObs, gasObs,
                 ethExecutionsCounter, warned, unhandledRejections>>
  /\ UNCHANGED <<storageVars, configVars>>

\* ---------------------------------------------------------- continuations

\* The chosen source settles the lookup; getTransactionRecordMetrics catches
\* a failure, logs a warning and settles.
LookupSettles(e, outcome) ==
  /\ CallStackEmpty
  /\ e \in 1..Len(tasks)
  /\ tasks[e].pc = "awaitLookup"
  /\ tasks' = [tasks EXCEPT ![e].pc = "gotResult",
                            ![e].lookup = IF outcome.ok THEN "ok" ELSE "failed",
                            ![e].result = GetTransactionRecordMetrics(outcome)]
  /\ warned' = IF outcome.ok THEN warned ELSE warned \cup {e}
  /\ UNCHANGED <<defaultToConsensusNode, stack, emissions, expenses, costObs, gasObs,
                 ethExecutionsCounter, unhandledRejections>>
  /\ UNCHANGED <<storageVars, configVars>>

\* captureTransactionMetrics from the point `after` on, for event e whose
\* logs are E and X: the next due emission is made (addExpense called and
\* awaited) or the function completes.
Continue(e, after, E, X) ==
  LET mode == NextMode(tasks[e].result.rec, after)
  IN IF mode = "none"
       THEN /\ tasks' = [tasks EXCEPT ![e].pc = "done"]
            /\ emissions' = [emissions EXCEPT ![e] = E]
            /\ expenses' = [expenses EXCEPT ![e] = X]
       ELSE /\ tasks' = [tasks EXCEPT ![e].pc = "awaitExpense"]
            /\ CallAddExpenseAndCaptureMetrics(e, SynthesizedPayload(tasks[e], mode), E, X)

\* captureTransactionMetrics resumes with the result of getTransactionRecordMetrics
CaptureResumes(e) ==
  /\ CallStackEmpty
  /\ e \in 1..Len(tasks)
  /\ tasks[e].pc = "gotResult"
  /\ IF tasks[e].result.kind = "raised"
       THEN /\ tasks' = [tasks EXCEPT ![e].pc = "rejected"]
            /\ unhandledRejections' = unhandledRejections \cup {e}
            /\ UNCHANGED <<emissions, expenses>>
     ELSE IF tasks[e].result.kind = "absent"
       THEN /\ tasks' = [tasks EXCEPT ![e].pc = "done"]
            /\ UNCHANGED <<emissions, expenses, unhandledRejections>>
     ELSE /\ Continue(e, "start", emissions[e], expenses[e])
          /\ UNCHANGED unhandledRejections
  /\ UNCHANGED <<defaultToConsensusNode, stack, costObs, gasObs, ethExecutionsCounter, warned>>
  /\ UNCHANGED <<storageVars, configVars>>

\* hbarLimitService.addExpense resolves: captureMetrics observes both
\* histograms, addExpenseAndCaptureMetrics resolves, and for a transaction
\* event captureTransactionMetrics goes on to its next emission.
AddExpenseResolves(e) ==
  /\ CallStackEmpty
  /\ e \in 1..Len(tasks)
  /\ tasks[e].pc = "awaitExpense"
  /\ LET i == Len(emissions[e])
         p == emissions[e][i]
         X == [expenses[e] EXCEPT ![i].state = "ok"]
     IN /\ costObs' = [costObs EXCEPT ![e] = Append(@, [em |-> i] @@ CostObservation(p))]
        /\ gasObs' = [gasObs EXCEPT ![e] = Append(@, [em |-> i] @@ GasObservation(p))]
        /\ IF tasks[e].kind = "TX"
             THEN Continue(e, p.executionMode, emissions[e], X)
             ELSE /\ tasks' = [tasks EXCEPT ![e].pc = "done"]
                  /\ emissions' = emissions
                  /\ expenses' = [expenses EXCEPT ![e] = X]
  /\ UNCHANGED <<defaultToConsensusNode, stack, ethExecutionsCounter, warned,
                 unhandledRejections>>
  /\ UNCHANGED <<storageVars, configVars>>

\* variant: the failure of addExpense is swallowed and the work goes on
AddExpenseRejects_Swallowed(e) ==
  /\ CallStackEmpty
  /\ e \in 1..Len(tasks)
  /\ tasks[e].pc = "awaitExpense"
  /\ LET i == Len(emissions[e])
         p == emissions[e][i]
         X == [expenses[e] EXCEPT ![i].state = "failed"]
     IN /\ costObs' = [costObs EXCEPT ![e] = Append(@, [em |-> i] @@ CostObservation(p))]
        /\ gasObs' = [gasObs EXCEPT ![e] = Append(@, [em |-> i] @@ GasObservation(p))]
        /\ IF tasks[e].kind = "TX"
             THEN Continue(e, p.executionMode, emissions[e], X)
             ELSE /\ tasks' = [tasks EXCEPT ![e].pc = "done"]
                  /\ emissions' = emissions
                  /\ expenses' = [expenses EXCEPT ![e] = X]
  /\ UNCHANGED <<defaultToConsensusNode, stack, ethExecutionsCounter, warned,
                 unhandledRejections>>
  /\ UNCHANGED <<storageVars, configVars>>

\* hbarLimitService.addExpense rejects: addExpenseAndCaptureMetrics rejects,
\* captureTransactionMetrics (if any) rejects, and the promise the handler
\* dropped has no rejection handler.
AddExpenseRejects(e) ==
  /\ CallStackEmpty
  /\ e \in 1..Len(tasks)
  /\ tasks[e].pc = "awaitExpense"
  /\ tasks' = [tasks EXCEPT ![e].pc = "rejected"]
  /\ expenses' = [expenses EXCEPT ![e][Len(expenses[e])].state = "failed"]
  /\ unhandledRejections' = unhandledRejections \cup {e}
  /\ UNCHANGED <<defaultToConsensusNode, stack, emissions, costObs, gasObs,
                 ethExecutionsCounter, warned>>
  /\ UNCHANGED <<storageVars, configVars>>

\* ================================================================ getStorageAt
\* The Block Resolver and the Storage Query Engine (eth_getStorageAt).  The
\* mirror node is the backend: it answers block lookups from the blocks it
\* knows and state queries with a status and a list of entries.

\* constants.ZERO_HEX_32_BYTE
ZeroValue == "0x0000000000000000000000000000000000000000000000000000000000000000"

\* the slot of one storage word, as callers spell it
PaddedSlot == "0x0000000000000000000000000000000000000000000000000000000000000101"
Slots == {"0x101", "0x0000101", PaddedSlot}

ContractAddresses == {"0xC1"}
Values == {"0xV1", "0xV2"}

\* the page size of a state query
PageLimit == 100

\* HTTP statuses of the state endpoint
NotFoundStatus == 404
OkStatus == 200

Tags == {"latest", "pending", "earliest", "safe", "finalized"}
UnboundedTags == {"latest", "pending", "safe", "finalized"}

\* block specifiers: a number, the hash of block n, or a named tag
Specifiers ==
  {[kind |-> "number", n |-> n, tag |-> ""] : n \in 0..MaxBlock}
    \cup {[kind |-> "hash", n |-> n, tag |-> ""] : n \in 0..MaxBlock}
    \cup {[kind |-> "tag", n |-> 0, tag |-> t] : t \in Tags}

\* the descriptor the mirror returns for block n
BlockOf(n) ==
  [number |-> n, hash |-> n, timestampFrom |-> 2 * n, timestampTo |-> 2 * n + 1]
NoBlock == [number |-> -1, hash |-> -1, timestampFrom |-> -1, timestampTo |-> -1]

\* the entry lists of at most n entries the state endpoint may return
RECURSIVE EntryLists(_)
EntryLists(n) ==
  IF n = 0 THEN {<<>>}
  ELSE EntryLists(n - 1)
         \cup {Append(l, [slot |-> PaddedSlot, value |-> v]) :
                 l \in {k \in EntryLists(n - 1) : Len(k) = n - 1}, v \in Values}

\* the responses of contracts/{address}/state
Responses ==
  {[status |-> NotFoundStatus, state |-> <<>>]}
    \cup {[status |-> OkStatus, state |-> l] : l \in EntryLists(MaxEntries)}

\* GET blocks/{number|hash}: the descriptor, or a null body
MirrorGetBlock(spec, known) ==
  IF spec.n < known
    THEN [null |-> FALSE, block |-> BlockOf(spec.n)]
    ELSE [null |-> TRUE, block |-> NoBlock]

\* variant: a block that is not found is treated like the latest block
ResolveBlock_NotFoundIsLatest(spec, known) ==
  IF spec.kind = "tag" /\ spec.tag \in UnboundedTags
    THEN [kind |-> "unbounded", block |-> NoBlock, lookups |-> <<>>]
    ELSE LET key == IF spec.kind = "tag" THEN [kind |-> "number", n |-> 0, tag |-> ""] ELSE spec
             body == MirrorGetBlock(key, known)
         IN [kind |-> IF body.null THEN "unbounded" ELSE "block", block |-> body.block,
             lookups |-> <<[by |-> key.kind, n |-> key.n, null |-> body.null]>>]

\* variant: a hash specifier is resolved without a timestamp window
ResolveBlock_HashUnbounded(spec, known) ==
  IF (spec.kind = "tag" /\ spec.tag \in UnboundedTags) \/ spec.kind = "hash"
    THEN [kind |-> "unbounded", block |-> NoBlock, lookups |-> <<>>]
    ELSE LET key == IF spec.kind = "tag" THEN [kind |-> "number", n |-> 0, tag |-> ""] ELSE spec
             body == MirrorGetBlock(key, known)
         IN [kind |-> IF body.null THEN "notFound" ELSE "block", block |-> body.block,
             lookups |-> <<[by |-> key.kind, n |-> key.n, null |-> body.null]>>]

\* Block Resolver: latest, pending, safe and finalized resolve to the
\* unbounded marker; a number or a hash is looked up once, earliest is the
\* lookup of the lowest-numbered block; a null body is NotFound.
ResolveBlock(spec, known) ==
  IF spec.kind = "tag" /\ spec.tag \in UnboundedTags
    THEN [kind |-> "unbounded", block |-> NoBlock, lookups |-> <<>>]
    ELSE LET key == IF spec.kind = "tag" THEN [kind |-> "number", n |-> 0, tag |-> ""] ELSE spec
             body == MirrorGetBlock(key, known)
         IN [kind |-> IF body.null THEN "notFound" ELSE "block", block |-> body.block,
             lookups |-> <<[by |-> key.kind, n |-> key.n, null |-> body.null]>>]

\* a slot left-padded with zeros to 32 bytes
PadSlot(slot) == IF slot \in Slots THEN PaddedSlot ELSE slot

\* variant: the timestamp filter is attached to every query
StateQuery_AlwaysTimestamp(address, slot, resolved) ==
  [address |-> address, slot |-> slot, hasTimestamp |-> TRUE,
   timestamp |-> resolved.block.timestampTo, limit |-> PageLimit, order |-> "desc"]

\* variant: the slot is padded to 32 bytes before the query is issued
StateQuery_PaddedSlot(address, slot, resolved) ==
  [address |-> address, slot |-> PadSlot(slot),
   hasTimestamp |-> resolved.kind # "unbounded",
   timestamp |-> IF resolved.kind = "unbounded" THEN -1 ELSE resolved.block.timestampTo,
   limit |-> PageLimit, order |-> "desc"]

\* contracts/{address}/state?[timestamp=<to>&]slot=<as supplied>&limit=100&order=desc
StateQuery(address, slot, resolved) ==
  [address |-> address, slot |-> slot,
   hasTimestamp |-> resolved.kind # "unbounded",
   timestamp |-> IF resolved.kind = "unbounded" THEN -1 ELSE resolved.block.timestampTo,
   limit |-> PageLimit, order |-> "desc"]

\* variant: a 404 of the state endpoint is reported as an error
ReduceResponse_NotFoundRaises(resp) ==
  IF resp.status = NotFoundStatus THEN [kind |-> "error", value |-> "CONTRACT_NOT_FOUND"]
  ELSE IF Len(resp.state) = 0 THEN [kind |-> "value", value |-> ZeroValue]
  ELSE [kind |-> "value", value |-> resp.state[1].value]

\* the response of the state endpoint reduced to the 32-byte result
ReduceResponse(resp) ==
  IF resp.status = NotFoundStatus THEN [kind |-> "value", value |-> ZeroValue]
  ELSE IF Len(resp.state) = 0 THEN [kind |-> "value", value |-> ZeroValue]
  ELSE [kind |-> "value", value |-> resp.state[1].value]

NoResponse == [status |-> 0, state |-> <<>>]
NoOutcome == [kind |-> "none", value |-> ""]
NoCall ==
  [pc |-> "idle", address |-> "", slot |-> "", block |-> [kind |-> "", n |-> 0, tag |-> ""],
   resolution |-> "none", resolved |-> NoBlock, lookups |-> <<>>, queries |-> <<>>,
   response |-> NoResponse, outcome |-> NoOutcome]

StorageInit ==
  /\ mirrorBlocks \in 0..(MaxBlock + 1)
  /\ storageCall = NoCall
  /\ storagePrev = NoCall

StorageQuiet == StorageInit /\ mirrorBlocks = 0

\* eth_getStorageAt(address, slot, block) is called
GetStorageAt(address, slot, spec) ==
  /\ storageCall.pc \in {"idle", "failed", "returned"}
  /\ storagePrev' = IF storageCall.pc = "idle" THEN storagePrev ELSE storageCall
  /\ storageCall' = [NoCall EXCEPT !.pc = "resolve", !.address = address, !.slot = slot,
                                   !.block = spec]
  /\ UNCHANGED <<mirrorBlocks, metricVars, configVars>>

\* step 1 and 2: the block specifier is resolved; NotFound fails the call
\* with RESOURCE_NOT_FOUND, otherwise the state query is built and issued
BlockResolved ==
  /\ storageCall.pc = "resolve"
  /\ LET r == ResolveBlock(storageCall.block, mirrorBlocks)
     IN storageCall' =
          IF r.kind = "notFound"
            THEN [storageCall EXCEPT !.pc = "failed", !.resolution = r.kind,
                                     !.lookups = r.lookups,
                                     !.outcome = [kind |-> "error",
                                                  value |-> "RESOURCE_NOT_FOUND"]]
            ELSE [storageCall EXCEPT !.pc = "query", !.resolution = r.kind,
                                     !.resolved = r.block, !.lookups = r.lookups,
                                     !.queries = <<StateQuery(storageCall.address,
                                                             storageCall.slot, r)>>]
  /\ UNCHANGED <<mirrorBlocks, storagePrev, metricVars, configVars>>

\* step 3: the state endpoint answers; the mirror answers a query it has
\* just answered in the same way
StateResponds(resp) ==
  /\ storageCall.pc = "query"
  /\ (storagePrev.pc = "returned" /\ storagePrev.queries = storageCall.queries)
       => resp = storagePrev.response
  /\ storageCall' = [storageCall EXCEPT !.pc = IF ReduceResponse(resp).kind = "error"
                                                 THEN "failed" ELSE "returned",
                                        !.response = resp,
                                        !.outcome = ReduceResponse(resp)]
  /\ UNCHANGED <<mirrorBlocks, storagePrev, metricVars, configVars>>

\* =============================================================== ConfigService
\* packages/config-service/src/services/index.ts.  GlobalConfig,
\* ValidationService and dotenv are collaborators of ConfigService; they are
\* modelled by what index.ts relies on them to do.

Keys == {"READ_ONLY", "OPERATOR_ID_MAIN", "OPERATOR_KEY_MAIN", "CHAIN_ID"}
OperatorVars == <<"OPERATOR_ID_MAIN", "OPERATOR_KEY_MAIN">>

\* JavaScript values: undefined, null, a boolean, or a string (its characters).
JsUndefined == [t |-> "undefined", s |-> <<>>, b |-> FALSE]
JsNull == [t |-> "null", s |-> <<>>, b |-> FALSE]
Str(s) == [t |-> "string", s |-> s, b |-> FALSE]
Bool(b) == [t |-> "boolean", s |-> <<>>, b |-> b]

\* v == undefined
LooseUndefined(v) == v.t \in {"undefined", "null"}

\* the truth value of v in a condition
Truthy(v) ==
  CASE v.t = "boolean" -> v.b
    [] v.t = "string" -> v.s # <<>>
    [] OTHER -> FALSE

TrueText == <<"t", "r", "u", "e">>
FalseText == <<"f", "a", "l", "s", "e">>

\* GlobalConfig.ENTRIES[name]
ENTRIES ==
  [k \in Keys |->
     CASE k = "READ_ONLY" ->
            [type |-> "boolean", required |-> FALSE, defaultValue |-> Bool(FALSE)]
       [] k = "CHAIN_ID" ->
            [type |-> "string", required |-> TRUE, defaultValue |-> JsNull]
       [] OTHER ->
            [type |-> "string", required |-> FALSE, defaultValue |-> JsNull]]

\* the texts an environment variable may hold
EnvStrings(k) ==
  CASE k = "READ_ONLY" -> {TrueText, FalseText}
    [] k = "OPERATOR_ID_MAIN" -> {<<>>, <<"0", ".", "0", ".", "2">>}
    [] k = "OPERATOR_KEY_MAIN" -> {<<"k">>}
    [] k = "CHAIN_ID" -> {<<"2", "9", "8">>, <<"0", "x", "1", "2", "a">>}

EnvValues(k) == {JsUndefined} \cup {Str(s) : s \in EnvStrings(k)}

NoVars == [k \in Keys |-> JsUndefined]

\* the contents process.env may have when the process starts
Environments ==
  {env \in [Keys -> UNION {EnvValues(k) : k \in Keys}] :
     \A k \in Keys : env[k] \in EnvValues(k)}

\* findConfig('.env'): no file, or a file with some of the variables
NoEnvFile == [found |-> FALSE, vars |-> NoVars]
EnvFiles ==
  { NoEnvFile,
    [found |-> TRUE, vars |-> [NoVars EXCEPT !["CHAIN_ID"] = Str(<<"2", "9", "8">>)]],
    [found |-> TRUE, vars |-> [NoVars EXCEPT !["READ_ONLY"] = Str(TrueText),
                                             !["CHAIN_ID"] = Str(<<"0", "x", "1", "2", "a">>)]] }

\* dotenv.config: a variable of the file is set unless process.env has it already
DotenvConfig(env, file) ==
  [k \in Keys |-> IF env[k] = JsUndefined THEN file.vars[k] ELSE env[k]]

\* ValidationService.startUp: every required entry must be in process.env
StartUp(env) ==
  IF \E k \in Keys : ENTRIES[k].required /\ env[k] = JsUndefined
    THEN "startUp" ELSE "none"

\* ValidationService.typeCasting: the typed copy of process.env
TypeCasting(env) ==
  [k \in Keys |->
     IF env[k] = JsUndefined
       THEN IF LooseUndefined(ENTRIES[k].defaultValue)
              THEN JsUndefined ELSE ENTRIES[k].defaultValue
       ELSE IF ENTRIES[k].type = "boolean"
              THEN Bool(env[k].s = TrueText)
              ELSE env[k]]

\* the values a typed variable may be overridden with
TypedValues(k) ==
  {JsUndefined} \cup
  {TypeCasting([NoVars EXCEPT ![k] = Str(s)])[k] : s \in EnvStrings(k)}

HexRadix == 16
HexChars ==
  <<"0", "1", "2", "3", "4", "5", "6", "7", "8", "9", "a", "b", "c", "d", "e", "f">>

DigitValue(c) == CHOOSE d \in 0..(HexRadix - 1) : HexChars[d + 1] = c

IsDigits(s, radix) ==
  \A i \in 1..Len(s) : \E d \in 0..(radix - 1) : HexChars[d + 1] = s[i]

RECURSIVE ParseDigits(_, _)
ParseDigits(s, radix) ==
  IF s = <<>> THEN 0
  ELSE ParseDigits(SubSeq(s, 1, Len(s) - 1), radix) * radix + DigitValue(s[Len(s)])

HasHexPrefix(s) == Len(s) > 2 /\ s[1] = "0" /\ s[2] = "x"

\* Number(value) is a number (not NaN)
IsNumeric(v) ==
  CASE v.t = "string" ->
         \/ v.s = <<>>
         \/ HasHexPrefix(v.s) /\ IsDigits(SubSeq(v.s, 3, Len(v.s)), HexRadix)
         \/ IsDigits(v.s, 10)
    [] v.t = "undefined" -> FALSE
    [] OTHER -> TRUE

\* Number(value), for a value that is numeric
Number(v) ==
  CASE v.t = "string" ->
         IF v.s = <<>> THEN 0
         ELSE IF HasHexPrefix(v.s)
           THEN ParseDigits(SubSeq(v.s, 3, Len(v.s)), HexRadix)
           ELSE ParseDigits(v.s, 10)
    [] v.t = "boolean" -> IF v.b THEN 1 ELSE 0
    [] OTHER -> 0

\* n.toString(16)
RECURSIVE ToString16(_)
ToString16(n) ==
  IF n < HexRadix THEN <<HexChars[n + 1]>>
  ELSE ToString16(n \div HexRadix) \o <<HexChars[(n % HexRadix) + 1]>>

\* `0x${Number(value).toString(16)}`
ChainIdHex(v) ==
  Str(<<"0", "x">> \o (IF IsNumeric(v) THEN ToString16(Number(v)) ELSE <<"N", "a", "N">>))

GetResult(kind, error, value) == [kind |-> kind, error |-> error, value |-> value]

InstanceGet_NoConversion(envs, name) ==
  LET configEntry == ENTRIES[name]
      value == IF LooseUndefined(envs[name]) THEN configEntry.defaultValue ELSE envs[name]
  IN IF LooseUndefined(value) /\ configEntry.required
       THEN GetResult("error", "mandatory", JsUndefined)
       ELSE GetResult("value", "none", value)

\* the private get(name) of an instance whose envs are given
InstanceGet(envs, name) ==
  LET configEntry == ENTRIES[name]
      value == IF LooseUndefined(envs[name]) THEN configEntry.defaultValue ELSE envs[name]
  IN IF LooseUndefined(value) /\ configEntry.required
       THEN GetResult("error", "mandatory", JsUndefined)
       ELSE GetResult("value", "none",
                      IF name = "CHAIN_ID" /\ value # JsUndefined
                        THEN ChainIdHex(value) ELSE value)

\* the error, if any, that the read-write branch raises for vars[i], vars[i+1], ..
RECURSIVE MandatoryInReadWrite(_, _)
MandatoryInReadWrite(envs, i) ==
  IF i > Len(OperatorVars) THEN "none"
  ELSE LET r == InstanceGet(envs, OperatorVars[i])
       IN IF r.kind = "error" THEN r.error
          ELSE IF ~Truthy(r.value) THEN "readWriteMode"
          ELSE MandatoryInReadWrite(envs, i + 1)

\* the error, if any, of a get in the read-only branch for vars[i], vars[i+1], ..
RECURSIVE WarnedInReadOnly(_, _)
WarnedInReadOnly(envs, i) ==
  IF i > Len(OperatorVars) THEN "none"
  ELSE LET r == InstanceGet(envs, OperatorVars[i])
       IN IF r.kind = "error" THEN r.error ELSE WarnedInReadOnly(envs, i + 1)

ValidateReadOnlyMode_KeyUnchecked(envs) ==
  LET readOnly == InstanceGet(envs, "READ_ONLY")
      id == InstanceGet(envs, OperatorVars[1])
  IN IF readOnly.kind = "error" THEN readOnly.error
     ELSE IF Truthy(readOnly.value) THEN WarnedInReadOnly(envs, 1)
     ELSE IF id.kind = "error" THEN id.error
     ELSE IF ~Truthy(id.value) THEN "readWriteMode" ELSE "none"

\* validateReadOnlyMode: the error it throws, or "none"
ValidateReadOnlyMode(envs) ==
  LET readOnly == InstanceGet(envs, "READ_ONLY")
  IN IF readOnly.kind = "error" THEN readOnly.error
     ELSE IF Truthy(readOnly.value) THEN WarnedInReadOnly(envs, 1)
     ELSE MandatoryInReadWrite(envs, 1)

\* new ConfigService(): process.env afterwards, the envs of the new object,
\* and the error thrown ("none" when the constructor returns)
Constructor(env, file) ==
  LET loaded == IF file.found THEN DotenvConfig(env, file) ELSE env
      envs == TypeCasting(loaded)
  IN [env |-> loaded,
      envs |-> envs,
      error |-> IF StartUp(loaded) # "none" THEN StartUp(loaded)
                ELSE ValidateReadOnlyMode(envs)]

\* ConfigService.instance before any constructor has completed;
\* constructions counts the constructor calls that have completed
NoInstance == [built |-> FALSE, envs |-> NoVars, overridden |-> FALSE, constructions |-> 0]

\* variant: a new object is constructed on every call
GetInstance_AlwaysConstructs(inst, env, file) ==
  LET c == Constructor(env, file)
  IN IF c.error = "none"
       THEN [instance |-> [built |-> TRUE, envs |-> c.envs, overridden |-> FALSE,
                           constructions |-> inst.constructions + 1],
             env |-> c.env, built |-> "constructed", error |-> "none"]
       ELSE [instance |-> inst, env |-> c.env, built |-> "failed", error |-> c.error]

\* getInstance()
GetInstance(inst, env, file) ==
  IF inst.built
    THEN [instance |-> inst, env |-> env, built |-> "reused", error |-> "none"]
    ELSE LET c == Constructor(env, file)
         IN IF c.error = "none"
              THEN [instance |-> [built |-> TRUE, envs |-> c.envs, overridden |-> FALSE,
                                  constructions |-> inst.constructions + 1],
                    env |-> c.env, built |-> "constructed", error |-> "none"]
              ELSE [instance |-> inst, env |-> c.env, built |-> "failed",
                    error |-> c.error]

NoConfigResult ==
  [op |-> "none", name |-> "", built |-> "none", kind |-> "none", error |-> "none",
   value |-> JsUndefined, masked |-> NoVars]

\* the fields whose values LoggerService.maskUpEnv hides
SENSITIVE_FIELDS == {"OPERATOR_KEY_MAIN"}
MaskText == <<"*", "*", "*", "*", "*", "*", "*", "*", "*", "*">>

\* `${value}`
TextOf(v) ==
  CASE v.t = "string" -> v.s
    [] v.t = "boolean" -> IF v.b THEN TrueText ELSE FalseText
    [] v.t = "null" -> <<"n", "u", "l", "l">>
    [] OTHER -> <<"u", "n", "d", "e", "f", "i", "n", "e", "d">>

\* LoggerService.maskUpEnv(name, value).split(' = ')[1]
MaskedValue(name, v) ==
  Str(IF name \in SENSITIVE_FIELDS THEN MaskText ELSE TextOf(v))

\* the dictionary getAllMasked builds from the envs of the instance
MaskedEnvs(envs) ==
  [k \in Keys |-> IF envs[k] = JsUndefined THEN JsUndefined ELSE MaskedValue(k, envs[k])]

ConfigInit ==
  /\ processEnv \in Environments
  /\ envFile \in EnvFiles
  /\ instance = NoInstance
  /\ configResult = NoConfigResult

ConfigQuiet ==
  /\ processEnv = NoVars
  /\ envFile = NoEnvFile
  /\ instance = NoInstance
  /\ configResult = NoConfigResult

\* ConfigService.get(name)
Get(name) ==
  LET g == GetInstance(instance, processEnv, envFile)
      r == IF g.error # "none"
             THEN GetResult("error", g.error, JsUndefined)
             ELSE InstanceGet(g.instance.envs, name)
  IN /\ processEnv' = g.env
     /\ instance' = g.instance
     /\ configResult' = [op |-> "get", name |-> name, built |-> g.built,
                         kind |-> r.kind, error |-> r.error, value |-> r.value,
                         masked |-> NoVars]
     /\ UNCHANGED <<envFile, metricVars, storageVars>>

\* ConfigService.getAllMasked(): the first getInstance() call constructs the
\* instance if there is none; the later ones, in the loop, find it
GetAllMasked ==
  LET g == GetInstance(instance, processEnv, envFile)
  IN /\ processEnv' = g.env
     /\ instance' = g.instance
     /\ configResult' =
          [NoConfigResult EXCEPT
             !.op = "getAllMasked",
             !.built = g.built,
             !.kind = IF g.error # "none" THEN "error" ELSE "value",
             !.error = g.error,
             !.masked = IF g.error # "none" THEN NoVars ELSE MaskedEnvs(g.instance.envs)]
     /\ UNCHANGED <<envFile, metricVars, storageVars>>

\* a value of the instance is overridden, or removed, after construction
DynamicOverride(name, value) ==
  /\ instance.built
  /\ instance' = [instance EXCEPT !.envs[name] = value, !.overridden = TRUE]
  /\ configResult' = [NoConfigResult EXCEPT !.op = "override", !.name = name,
                                            !.value = value]
  /\ UNCHANGED <<processEnv, envFile, metricVars, storageVars>>

\* ==================================================================== specs
MetricQuiet == MetricInit /\ ~defaultToConsensusNode

Init == MetricInit /\ StorageQuiet /\ ConfigQuiet

Next ==
  \/ \E type \in Types, caller \in Addresses : EmitExecuteTransaction(type, caller)
  \/ \E type \in Types, caller \in Addresses \cup {Undefined}, cost \in 0..MaxCost,
        gas \in 0..MaxGas, status \in Statuses :
       EmitExecuteQuery(type, caller, cost, gas, status)
  \/ \E method \in Methods : EmitEthExecution(method)
  \/ HandlerExit
  \/ EmitReturn
  \/ \E e \in 1..MaxEvents, outcome \in SourceOutcomes : LookupSettles(e, outcome)
  \/ \E e \in 1..MaxEvents : CaptureResumes(e)
  \/ \E e \in 1..MaxEvents : AddExpenseResolves(e)
  \/ \E e \in 1..MaxEvents : AddExpenseRejects(e)

Spec == Init /\ [][Next]_vars

\* The event loop runs a continuation that is ready once the call stack is
\* empty, a publisher's emit() returns, and every record lookup and every
\* addExpense call eventually returns or fails.
Fairness ==
  /\ WF_vars(HandlerExit)
  /\ WF_vars(EmitReturn)
  /\ \A e \in 1..MaxEvents :
       /\ WF_vars(\E outcome \in SourceOutcomes : LookupSettles(e, outcome))
       /\ WF_vars(CaptureResumes(e))
       /\ WF_vars(AddExpenseResolves(e) \/ AddExpenseRejects(e))

SpecLive == Init /\ [][Next]_vars /\ Fairness

NextStorage ==
  \/ \E address \in ContractAddresses, slot \in Slots, spec \in Specifiers :
       GetStorageAt(address, slot, spec)
  \/ BlockResolved
  \/ \E resp \in Responses : StateResponds(resp)

InitStorage == MetricQuiet /\ StorageInit /\ ConfigQuiet

SpecStorage == InitStorage /\ [][NextStorage]_vars

NextConfig ==
  \/ \E name \in Keys : Get(name)
  \/ GetAllMasked
  \/ \E name \in Keys : \E value \in TypedValues(name) : DynamicOverride(name, value)

InitConfig == MetricQuiet /\ StorageQuiet /\ ConfigInit

SpecConfig == InitConfig /\ [][NextConfig]_vars

\* ------------------------------------------------------------ properties

TaskIds == 1..Len(tasks)
IsTx(e) == tasks[e].kind = "TX"
Terminal(e) == tasks[e].pc \in {"done", "rejected"}
NoSideEffects(e) ==
  /\ emissions[e] = <<>>
  /\ expenses[e] = <<>>
  /\ costObs[e] = <<>>
  /\ gasObs[e] = <<>>
HasMode(e, mode) == \E i \in 1..Len(emissions[e]) : emissions[e][i].executionMode = mode

\* C1: getTransactionRecordMetrics never raises to its caller; when the
\* lookup of the selected strategy fails the call resolves to absent
\* (neither an error nor a zero-valued record), and a lookup that succeeds
\* yields exactly the one record the source returned.
C1_RetrievalResolvesToAbsent ==
  \A e \in TaskIds : IsTx(e) =>
    /\ tasks[e].result.kind \in {"none", "record", "absent"}
    /\ tasks[e].lookup = "pending" <=> tasks[e].result.kind = "none"
    /\ tasks[e].lookup = "failed" => tasks[e].result = [kind |-> "absent", rec |-> NoRecord]
    /\ tasks[e].lookup = "ok" => tasks[e].result.kind = "record" /\ tasks[e].result.rec \in Records

C1_Witness ==
  \E e \in TaskIds :
    IsTx(e) /\ tasks[e].lookup = "failed" /\ tasks[e].pc = "gotResult" /\ tasks[e].result.kind = "absent"

\* C2: when the strategy call raises during captureTransactionMetrics, the
\* function completes without raising, and no addExpense call and no cost
\* or gas observation is made for that event.
C2_FailedLookupHasNoSideEffects ==
  \A e \in TaskIds : (IsTx(e) /\ tasks[e].lookup = "failed") =>
    /\ tasks[e].pc \in {"gotResult", "done"}
    /\ e \notin unhandledRejections
    /\ NoSideEffects(e)

C2_Witness ==
  \E e \in TaskIds :
    IsTx(e) /\ tasks[e].lookup = "failed" /\ tasks[e].pc = "done" /\ e \in warned /\ NoSideEffects(e)

\* C3: a failure raised inside the metering pipeline (a failing addExpense
\* while handling a TransactionExecuted or QueryExecuted event) never
\* reaches the process as an unhandled failure.
C3_NoFailureLeavesThePipeline == unhandledRejections = {}

\* C4 (as claimed): no QueryExecuted event of cost 0, synthesized or
\* published directly, reaches addExpense or the histograms.
C4_ZeroCostNeverForwarded ==
  \A e \in TaskIds :
    /\ \A i \in 1..Len(expenses[e]) : expenses[e][i].args.cost # 0
    /\ \A i \in 1..Len(costObs[e]) : emissions[e][costObs[e][i].em].cost # 0
    /\ \A i \in 1..Len(gasObs[e]) : emissions[e][gasObs[e][i].em].cost # 0

\* C4 (amended): an emission synthesized by captureTransactionMetrics never
\* has cost 0, so no zero cost reaches addExpense or the histograms from a
\* TransactionExecuted event; a QueryExecuted event published directly is
\* forwarded to addExpense with the cost it carries, zero included.
C4_SynthesizedCostNonZero ==
  \A e \in TaskIds :
    /\ IsTx(e) =>
         /\ \A i \in 1..Len(emissions[e]) : emissions[e][i].cost # 0
         /\ \A i \in 1..Len(expenses[e]) : expenses[e][i].args.cost # 0
         /\ \A i \in 1..Len(costObs[e]) : emissions[e][costObs[e][i].em].cost # 0
         /\ \A i \in 1..Len(gasObs[e]) : emissions[e][gasObs[e][i].em].cost # 0
    /\ tasks[e].kind = "QUERY" =>
         /\ Len(expenses[e]) = 1
         /\ expenses[e][1].args.cost = emissions[e][1].cost

C4_Witness ==
  /\ \E e \in TaskIds :
       /\ IsTx(e) /\ tasks[e].pc = "done"
       /\ tasks[e].result.rec.transactionFee = 0
       /\ Len(expenses[e]) = 1 /\ Len(costObs[e]) = 1
  /\ \E e \in TaskIds :
       /\ tasks[e].kind = "QUERY" /\ tasks[e].pc = "done"
       /\ expenses[e][1].args.cost = 0 /\ Len(costObs[e]) = 1

\* C5: when the retrieved record has transactionFee = 0 and
\* txRecordChargeAmount = 0, no expense is forwarded and no histogram
\* observation is recorded.
C5_ZeroRecordHasNoSideEffects ==
  \A e \in TaskIds :
    (/\ IsTx(e) /\ tasks[e].result.kind = "record"
     /\ tasks[e].result.rec.transactionFee = 0
     /\ tasks[e].result.rec.txRecordChargeAmount = 0) =>
      /\ NoSideEffects(e)
      /\ tasks[e].pc \in {"gotResult", "done"}

C5_Witness ==
  \E e \in TaskIds :
    /\ IsTx(e) /\ tasks[e].result.kind = "record" /\ tasks[e].pc = "done"
    /\ tasks[e].result.rec.transactionFee = 0
    /\ tasks[e].result.rec.txRecordChargeAmount = 0
    /\ tasks[e].result.rec.gasUsed # 0

\* C6 (as claimed): once captureTransactionMetrics has ended for a retrieved
\* record, a TRANSACTION emission (cost = transactionFee, gasUsed = the
\* retrieved gasUsed) was produced iff transactionFee # 0, and a RECORD
\* emission (cost = txRecordChargeAmount, gasUsed = 0) iff
\* txRecordChargeAmount # 0, each regardless of the other component.
C6_ComponentsIndependent ==
  \A e \in TaskIds :
    (IsTx(e) /\ tasks[e].result.kind = "record" /\ Terminal(e)) =>
      LET rec == tasks[e].result.rec
      IN /\ HasMode(e, EXECUTION_MODE.TRANSACTION) <=> rec.transactionFee # 0
         /\ HasMode(e, EXECUTION_MODE.RECORD) <=> rec.txRecordChargeAmount # 0
         /\ \A i \in 1..Len(emissions[e]) :
              /\ emissions[e][i].executionMode = EXECUTION_MODE.TRANSACTION =>
                   emissions[e][i].cost = rec.transactionFee /\ emissions[e][i].gasUsed = rec.gasUsed
              /\ emissions[e][i].executionMode = EXECUTION_MODE.RECORD =>
                   emissions[e][i].cost = rec.txRecordChargeAmount /\ emissions[e][i].gasUsed = 0

\* C7: every emission calls addExpense exactly once, with (cost,
\* originalCallerAddress or '' when absent, requestDetails); observations
\* exist for an emission only once that call has completed, and then there
\* is exactly one cost and one gas observation, labelled (executionMode,
\* txConstructorName, status), of the emission's cost and gasUsed.
C7_ExpenseThenObservation ==
  \A e \in TaskIds :
    /\ Len(expenses[e]) = Len(emissions[e])
    /\ \A i \in 1..Len(emissions[e]) :
         LET p == emissions[e][i]
             co == {k \in 1..Len(costObs[e]) : costObs[e][k].em = i}
             go == {k \in 1..Len(gasObs[e]) : gasObs[e][k].em = i}
         IN /\ expenses[e][i].args =
                 [cost |-> p.cost,
                  ethAddress |-> IF p.originalCallerAddress = Undefined THEN ""
                                 ELSE p.originalCallerAddress,
                  requestDetails |-> tasks[e].requestDetails]
            /\ expenses[e][i].state # "ok" => co = {} /\ go = {}
            /\ expenses[e][i].state = "ok" =>
                 /\ Cardinality(co) = 1 /\ Cardinality(go) = 1
                 /\ \A k \in co :
                      /\ costObs[e][k].labels = <<p.executionMode, p.txConstructorName, p.status>>
                      /\ costObs[e][k].value = p.cost
                 /\ \A k \in go :
                      /\ gasObs[e][k].labels = <<p.executionMode, p.txConstructorName, p.status>>
                      /\ gasObs[e][k].value = p.gasUsed

C7_Witness ==
  \E e \in TaskIds :
    /\ tasks[e].kind = "QUERY" /\ tasks[e].pc = "done"
    /\ emissions[e][1].originalCallerAddress = Undefined
    /\ expenses[e][1].args.ethAddress = ""
    /\ expenses[e][1].state = "ok"
    /\ Len(costObs[e]) = 1 /\ Len(gasObs[e]) = 1

\* C8: each getTransactionRecordMetrics call consults exactly one source,
\* the consensus-submission client when the switch is true and the mirror
\* when it is false; the other source is never called, also after the
\* chosen one has failed.
C8_ExactlyOneSource ==
  \A e \in TaskIds : IsTx(e) =>
    /\ defaultToConsensusNode => tasks[e].sdkCalls = 1 /\ tasks[e].mirrorCalls = 0
    /\ ~defaultToConsensusNode => tasks[e].sdkCalls = 0 /\ tasks[e].mirrorCalls = 1

C8_Witness ==
  \E e \in TaskIds :
    /\ IsTx(e) /\ tasks[e].lookup = "failed" /\ Terminal(e)
    /\ tasks[e].sdkCalls + tasks[e].mirrorCalls = 1

\* C9: when emit() hands control back to the publisher of a
\* TransactionExecuted event, the record retrieval of that event has not
\* completed and no addExpense call or observation has been made for it.
C9_PublisherDoesNotWait ==
  \A e \in TaskIds :
    (IsTx(e) /\ stack.ev = e /\ stack.at = "emitted") =>
      /\ tasks[e].pc = "awaitLookup"
      /\ tasks[e].lookup = "pending"
      /\ NoSideEffects(e)

C9_Witness ==
  \E e \in TaskIds :
    IsTx(e) /\ e \in published /\ CallStackEmpty /\ tasks[e].pc = "awaitLookup"

\* C10 (as claimed): once the handler of a TransactionExecuted event has
\* exited, the captureTransactionMetrics call it started has completed.
C10_CompleteAtHandlerExit ==
  \A e \in TaskIds :
    (IsTx(e) /\ stack.ev = e /\ stack.at = "emitted") => Terminal(e)

\* C10 (amended): the handler starts captureTransactionMetrics (the lookup
\* of the selected source is issued) before it exits, and the call
\* completes only after the handler has exited and emit() has returned.
C10_StartedBeforeExitCompletedAfter ==
  \A e \in TaskIds : IsTx(e) =>
    /\ stack.ev = e =>
         /\ tasks[e].sdkCalls + tasks[e].mirrorCalls = 1
         /\ tasks[e].lookup = "pending"
    /\ tasks[e].pc # "awaitLookup" => e \in published

C10_Witness ==
  \E e \in TaskIds : IsTx(e) /\ Terminal(e) /\ e \in published

\* C11: an EthMethodInvoked event increments the execution counter of its
\* method label by exactly one and does nothing else: the counter of every
\* label equals the number of EthMethodInvoked events published with that
\* method, and such an event has no emission, addExpense call or observation.
C11_EthExecutionCountsOnly ==
  /\ \A m \in Methods :
       ethExecutionsCounter[m] =
         Cardinality({e \in TaskIds : tasks[e].kind = "ETH" /\ tasks[e].method = m})
  /\ \A e \in TaskIds : tasks[e].kind = "ETH" =>
       /\ NoSideEffects(e)
       /\ tasks[e].pc = "done"
       /\ e \notin unhandledRejections /\ e \notin warned

C11_Witness ==
  /\ ethExecutionsCounter["eth_call"] = 1
  /\ ethExecutionsCounter["eth_getStorageAt"] = 0
  /\ \E e \in TaskIds : tasks[e].kind = "TX" /\ Len(expenses[e]) = 1

\* the handler of event e has run its synchronous part: the record lookup
\* is issued, addExpense is called, or the counter is incremented
HandlerStarted(e) ==
  CASE tasks[e].kind = "TX" ->
         tasks[e].sdkCalls + tasks[e].mirrorCalls = 1 /\ tasks[e].lookup # "none"
    [] tasks[e].kind = "QUERY" -> Len(expenses[e]) >= 1
    [] OTHER -> ethExecutionsCounter[tasks[e].method] >= 1

\* C12: events are delivered to the handlers in publish order: the handler
\* of every published event has started by the time its emit() is in
\* progress, the only handler on the call stack is that of the event
\* published last, so the handlers of all earlier events started (and
\* returned) before it; the processing they start completes independently.
C12_HandlersStartInPublishOrder ==
  /\ stack.ev # 0 => stack.ev = Len(tasks)
  /\ stack.ev = 0 <=> stack.at = "idle"
  /\ \A e \in TaskIds : HandlerStarted(e)
  /\ \A e \in TaskIds : e < Len(tasks) => e \in published

C12_Witness ==
  /\ Len(tasks) = 2
  /\ IsTx(1) /\ IsTx(2)
  /\ tasks[1].pc = "awaitLookup"
  /\ tasks[2].pc = "done"

\* the emissions of event e made in the given mode
EmissionsInMode(e, mode) ==
  {i \in 1..Len(emissions[e]) : emissions[e][i].executionMode = mode}

\* C20: for one TransactionExecuted event there are at most two addExpense
\* calls, at most one for a TRANSACTION emission and at most one for a RECORD
\* emission; when both exist the TRANSACTION one is the first, and from the
\* moment the RECORD emission's addExpense call exists the TRANSACTION
\* emission's addExpense has completed and its cost and gas observations are
\* recorded.
C20_TransactionBeforeRecord ==
  \A e \in TaskIds :
    IsTx(e) =>
      /\ Len(expenses[e]) <= 2
      /\ Len(expenses[e]) = Len(emissions[e])
      /\ Cardinality(EmissionsInMode(e, EXECUTION_MODE.TRANSACTION)) <= 1
      /\ Cardinality(EmissionsInMode(e, EXECUTION_MODE.RECORD)) <= 1
      /\ EmissionsInMode(e, EXECUTION_MODE.QUERY) = {}
      /\ ( /\ EmissionsInMode(e, EXECUTION_MODE.TRANSACTION) # {}
           /\ EmissionsInMode(e, EXECUTION_MODE.RECORD) # {} )
         => /\ EmissionsInMode(e, EXECUTION_MODE.TRANSACTION) = {1}
            /\ EmissionsInMode(e, EXECUTION_MODE.RECORD) = {2}
            /\ expenses[e][1].state = "ok"
            /\ \E k \in 1..Len(costObs[e]) : costObs[e][k].em = 1
            /\ \E k \in 1..Len(gasObs[e]) : gasObs[e][k].em = 1
            /\ \A k \in 1..Len(costObs[e]) : costObs[e][k].em = 2 => k > 1
            /\ \A k \in 1..Len(gasObs[e]) : gasObs[e][k].em = 2 => k > 1

\* a transaction event with both emissions, the RECORD one still awaiting
\* the budget enforcer
C20_Witness ==
  \E e \in TaskIds :
    /\ IsTx(e)
    /\ tasks[e].pc = "awaitExpense"
    /\ Len(expenses[e]) = 2
    /\ emissions[e][1].executionMode = EXECUTION_MODE.TRANSACTION
    /\ emissions[e][2].executionMode = EXECUTION_MODE.RECORD
    /\ expenses[e][1].state = "ok"
    /\ expenses[e][2].state = "pending"
    /\ Len(costObs[e]) = 1 /\ Len(gasObs[e]) = 1

\* C21: when addExpense fails for an emission, no cost and no gas observation
\* is recorded for that emission and the handler's work for the event ends
\* there; when the failed emission is the TRANSACTION one of a transaction
\* event, no RECORD emission of that event is ever made, also when the
\* record's txRecordChargeAmount is not zero.
C21_FailedExpenseStopsTheEvent ==
  \A e \in TaskIds :
    \A i \in 1..Len(expenses[e]) :
      expenses[e][i].state = "failed" =>
        /\ \A k \in 1..Len(costObs[e]) : costObs[e][k].em # i
        /\ \A k \in 1..Len(gasObs[e]) : gasObs[e][k].em # i
        /\ i = Len(expenses[e])
        /\ Len(emissions[e]) = Len(expenses[e])
        /\ tasks[e].pc = "rejected"
        /\ (IsTx(e) /\ emissions[e][i].executionMode = EXECUTION_MODE.TRANSACTION)
             => /\ ~HasMode(e, EXECUTION_MODE.RECORD)
                /\ \A j \in 1..Len(expenses[e]) :
                     expenses[e][j].args.cost = tasks[e].result.rec.transactionFee

\* a transaction event whose record has a fee and a record charge, and whose
\* TRANSACTION emission's addExpense has failed
C21_Witness ==
  \E e \in TaskIds :
    /\ IsTx(e)
    /\ tasks[e].result.rec.transactionFee # 0
    /\ tasks[e].result.rec.txRecordChargeAmount # 0
    /\ Len(expenses[e]) = 1
    /\ expenses[e][1].state = "failed"
    /\ emissions[e][1].executionMode = EXECUTION_MODE.TRANSACTION
    /\ costObs[e] = <<>> /\ gasObs[e] = <<>>

\* the addExpense call that event e owes for a cost
ExpectedExpense(e, cost) ==
  [cost |-> cost,
   ethAddress |-> IF tasks[e].originalCallerAddress = Undefined
                    THEN "" ELSE tasks[e].originalCallerAddress,
   requestDetails |-> tasks[e].requestDetails]

\* the addExpense calls that event e owes, in order: the nonzero fee and the
\* nonzero record charge of a retrieved record, or the cost of a published
\* query event
ExpectedExpenses(e) ==
  IF tasks[e].kind = "TX" /\ tasks[e].result.kind = "record"
    THEN LET rec == tasks[e].result.rec
         IN (IF rec.transactionFee # 0
               THEN <<ExpectedExpense(e, rec.transactionFee)>> ELSE <<>>)
            \o (IF rec.txRecordChargeAmount # 0
                  THEN <<ExpectedExpense(e, rec.txRecordChargeAmount)>> ELSE <<>>)
  ELSE IF tasks[e].kind = "QUERY"
    THEN <<ExpectedExpense(e, emissions[e][1].cost)>>
  ELSE <<>>

AllHandlersCompleted ==
  /\ CallStackEmpty
  /\ \A e \in TaskIds : tasks[e].pc = "done"

\* C22: whatever the interleaving of the handlers of the published events,
\* once all of them have completed (none with a failed addExpense) the
\* addExpense calls are exactly, for every event, the nonzero fee and the
\* nonzero record charge of its retrieved record or the cost of its query
\* payload, each made once, completed, and keyed by the caller address and
\* the request details of that event.
C22_ExpensesMatchEvents ==
  AllHandlersCompleted =>
    \A e \in TaskIds :
      /\ Len(expenses[e]) = Len(ExpectedExpenses(e))
      /\ \A i \in 1..Len(expenses[e]) :
           /\ expenses[e][i].args = ExpectedExpenses(e)[i]
           /\ expenses[e][i].state = "ok"

\* a transaction event of one caller with a fee and a record charge and a
\* query event of another caller, published before the transaction's handler
\* could resume, both completed
C22_Witness ==
  /\ AllHandlersCompleted
  /\ Len(tasks) = 2
  /\ tasks[1].kind = "TX" /\ tasks[2].kind = "QUERY"
  /\ tasks[1].originalCallerAddress # tasks[2].originalCallerAddress
  /\ tasks[2].originalCallerAddress # Undefined
  /\ Len(expenses[1]) = 2 /\ Len(expenses[2]) = 1
  /\ expenses[1][1].args.ethAddress = tasks[1].originalCallerAddress
  /\ expenses[2][1].args.ethAddress = tasks[2].originalCallerAddress

\* event e is a published TransactionExecuted event
PublishedTx(e) == e <= Len(tasks) /\ tasks[e].kind = "TX"

\* RecordMissing: the retrieval resolved to absent and nothing was done
RecordMissing(e) ==
  /\ PublishedTx(e)
  /\ tasks[e].pc = "done"
  /\ tasks[e].result.kind = "absent"
  /\ NoSideEffects(e)

\* MetricsRecorded: every emission due for the retrieved record was forwarded
\* to addExpense and observed in both histograms
MetricsRecorded(e) ==
  /\ PublishedTx(e)
  /\ tasks[e].pc = "done"
  /\ tasks[e].result.kind = "record"
  /\ Len(expenses[e]) = Len(ExpectedExpenses(e))
  /\ \A i \in 1..Len(expenses[e]) :
       /\ expenses[e][i].args = ExpectedExpenses(e)[i]
       /\ expenses[e][i].state = "ok"
       /\ \E k \in 1..Len(costObs[e]) : costObs[e][k].em = i
       /\ \E k \in 1..Len(gasObs[e]) : gasObs[e][k].em = i

\* C23 (as claimed): when every record lookup and every addExpense call
\* eventually returns or fails, every TransactionExecuted event eventually
\* reaches a terminal state of the per-execution state machine: RecordMissing
\* with no side effects, or MetricsRecorded with all due emissions forwarded
\* and recorded.
C23_EveryTransactionReachesTerminal ==
  \A e \in 1..MaxEvents : PublishedTx(e) ~> (RecordMissing(e) \/ MetricsRecorded(e))

\* no TransactionExecuted event stays pending: its handler's work ends,
\* completed or rejected
NoTransactionStaysPending ==
  \A e \in 1..MaxEvents : PublishedTx(e) ~> (PublishedTx(e) /\ Terminal(e))

\* ---------------------------------------------------- getStorageAt properties

\* the getStorageAt calls the state remembers
StorageCalls == {storagePrev, storageCall}
Answered(c) == c.response # NoResponse
IsEmptyOk(resp) == resp.status = OkStatus /\ Len(resp.state) = 0

\* C13: a 404 of the state endpoint and a 200 with an empty entry list both
\* make getStorageAt return the same 32-byte all-zero value; neither is an
\* error.
C13_NotFoundAndEmptyConverge ==
  \A c \in StorageCalls :
    (Answered(c) /\ (c.response.status = NotFoundStatus \/ IsEmptyOk(c.response))) =>
      /\ c.pc = "returned"
      /\ c.outcome = [kind |-> "value", value |-> ZeroValue]

C13_Witness ==
  /\ storagePrev.pc = "returned" /\ storageCall.pc = "returned"
  /\ storagePrev.response.status = NotFoundStatus
  /\ IsEmptyOk(storageCall.response)
  /\ storagePrev.block.kind = "number" /\ storageCall.block = storagePrev.block
  /\ storagePrev.outcome = storageCall.outcome

\* C14: with a numeric or hash specifier, a block lookup that returns a
\* null body fails the call with RESOURCE_NOT_FOUND, and no state query is
\* issued for that call.
C14_BlockNotFoundStopsTheCall ==
  \A c \in StorageCalls :
    (/\ c.block.kind \in {"number", "hash"}
     /\ c.lookups # <<>>
     /\ c.lookups[1].null) =>
      /\ c.pc = "failed"
      /\ c.outcome = [kind |-> "error", value |-> "RESOURCE_NOT_FOUND"]
      /\ c.queries = <<>>
      /\ ~Answered(c)

C14_Witness ==
  /\ storagePrev.block.kind = "hash" /\ storagePrev.pc = "failed"
  /\ storagePrev.lookups # <<>>
  /\ storageCall.block.kind = "number" /\ storageCall.pc = "failed"
  /\ storageCall.lookups # <<>>

\* C15: the state query carries a timestamp filter iff the resolution was
\* not unbounded: never for latest, safe and finalized, and for a number or
\* a hash the filter is the upper timestamp bound of the resolved block.
C15_TimestampIffBounded ==
  \A c \in StorageCalls : c.queries # <<>> =>
    LET q == c.queries[1]
    IN /\ Len(c.queries) = 1
       /\ q.hasTimestamp <=> c.resolution # "unbounded"
       /\ (c.block.kind = "tag" /\ c.block.tag \in {"latest", "safe", "finalized"}) =>
            ~q.hasTimestamp
       /\ c.block.kind \in {"number", "hash"} =>
            /\ q.hasTimestamp
            /\ c.resolved.number = c.block.n
            /\ q.timestamp = c.resolved.timestampTo
            /\ q.timestamp = BlockOf(c.block.n).timestampTo

C15_Witness ==
  /\ storagePrev.pc = "returned" /\ storagePrev.block.tag = "safe"
  /\ ~storagePrev.queries[1].hasTimestamp
  /\ storageCall.pc = "returned" /\ storageCall.block.kind = "number"
  /\ storageCall.block.n = 1
  /\ storageCall.queries[1].hasTimestamp

\* C16: the same block given by number and by hash yields the same state
\* query and the same getStorageAt result, for every address and slot.
SameBlockByNumberAndHash(a, b) ==
  /\ a.pc # "idle" /\ b.pc # "idle"
  /\ a.address = b.address /\ a.slot = b.slot
  /\ a.block.n = b.block.n
  /\ {a.block.kind, b.block.kind} = {"number", "hash"}

C16_NumberAndHashAgree ==
  SameBlockByNumberAndHash(storagePrev, storageCall) =>
    /\ storageCall.pc # "resolve" =>
         /\ storageCall.queries = storagePrev.queries
         /\ storageCall.resolved = storagePrev.resolved
    /\ storageCall.pc \in {"returned", "failed"} =>
         storageCall.outcome = storagePrev.outcome

C16_Witness ==
  /\ SameBlockByNumberAndHash(storagePrev, storageCall)
  /\ storagePrev.block.kind = "number"
  /\ storageCall.pc = "returned"
  /\ storageCall.outcome.value \in Values
  /\ storageCall.queries[1].hasTimestamp

\* C17: the slot goes into the state query exactly as the caller supplied
\* it, and when the backend returns at least one entry the result is the
\* value of the first entry, unmodified.
C17_SlotPassThroughFirstEntry ==
  \A c \in StorageCalls :
    /\ c.queries # <<>> =>
         /\ c.queries[1].slot = c.slot
         /\ c.queries[1].address = c.address
         /\ c.queries[1].limit = PageLimit /\ c.queries[1].order = "desc"
    /\ (Answered(c) /\ c.response.status = OkStatus /\ Len(c.response.state) >= 1) =>
         /\ c.pc = "returned"
         /\ c.outcome = [kind |-> "value", value |-> c.response.state[1].value]

C17_Witness ==
  /\ storagePrev.pc = "returned" /\ storagePrev.slot = "0x101"
  /\ storageCall.pc = "returned" /\ storageCall.slot = "0x0000101"
  /\ storageCall.queries[1].slot = "0x0000101"
  /\ Len(storageCall.response.state) = 2
  /\ storageCall.response.state[1].value # storageCall.response.state[2].value
  /\ storageCall.outcome.value = storageCall.response.state[1].value

\* --------------------------------------------------- ConfigService properties

\* the variable is missing from process.env (not set, or set to the empty text)
EnvMissing(k) == processEnv[k] = JsUndefined \/ processEnv[k] = Str(<<>>)
ReadOnlyRequested == processEnv["READ_ONLY"] = Str(TrueText)
ConstructionAttempted ==
  configResult.op = "get" /\ configResult.built \in {"constructed", "failed"}

\* C18: in read-write mode a missing OPERATOR_ID_MAIN or OPERATOR_KEY_MAIN
\* aborts the construction of the configuration with an error and no instance
\* is installed; in read-only mode the construction succeeds whatever the two
\* operator settings are (the other required settings being present); and a
\* configuration error is raised only by a construction that fails: a get on a
\* constructed instance whose values were not overridden never fails.
C18_OperatorSettingsMandatoryInReadWriteOnly ==
  /\ ( /\ ConstructionAttempted
       /\ ~ReadOnlyRequested
       /\ \E i \in 1..Len(OperatorVars) : EnvMissing(OperatorVars[i]) )
     => ( /\ configResult.built = "failed"
          /\ configResult.kind = "error"
          /\ ~instance.built )
  /\ ( /\ ConstructionAttempted
       /\ ReadOnlyRequested
       /\ \A k \in Keys : ENTRIES[k].required => processEnv[k] # JsUndefined )
     => ( /\ configResult.built = "constructed"
          /\ configResult.kind = "value"
          /\ instance.built )
  /\ configResult.kind = "error"
     => configResult.built = "failed" \/ instance.overridden

\* read-write mode, the operator id is set and the operator key is not: the
\* construction was aborted by validateReadOnlyMode
C18_Witness ==
  /\ configResult.op = "get"
  /\ configResult.built = "failed"
  /\ configResult.error = "readWriteMode"
  /\ processEnv["READ_ONLY"] = Str(FalseText)
  /\ ~EnvMissing("OPERATOR_ID_MAIN")
  /\ processEnv["OPERATOR_KEY_MAIN"] = JsUndefined
  /\ ~instance.built

\* the value the instance holds for the key, or else the default of its entry
HeldOrDefault(name) ==
  IF LooseUndefined(instance.envs[name])
    THEN ENTRIES[name].defaultValue ELSE instance.envs[name]

\* C19 as stated: get(name) returns the environment value of the key when one
\* is set, otherwise the default value of its entry; it throws exactly when
\* neither exists and the key is required; a missing non-required key yields
\* no value without error.
C19_GetReturnsEnvOrDefault ==
  (configResult.op = "get" /\ configResult.built # "failed") =>
    LET name == configResult.name
    IN IF LooseUndefined(HeldOrDefault(name)) /\ ENTRIES[name].required
         THEN configResult.kind = "error"
         ELSE /\ configResult.kind = "value"
              /\ configResult.value = HeldOrDefault(name)

\* C19, amended: a get whose construction of the instance fails throws the
\* construction's error.  Otherwise get(name) reads the value the instance
\* holds for the key (the text of process.env, made a boolean for a boolean
\* entry, unless overridden later) or else the default of its entry; it throws
\* exactly when that value is null or undefined and the key is required; for
\* CHAIN_ID it returns the value as a 0x-prefixed hexadecimal text of the same
\* number, and for every other key the value itself, which for a missing
\* non-required key is the null or undefined default.
C19_GetReturnsConvertedEnvOrDefault ==
  configResult.op = "get" =>
    LET name == configResult.name
        raw == HeldOrDefault(name)
    IN IF configResult.built = "failed"
         THEN /\ configResult.kind = "error"
              /\ configResult.error \in {"startUp", "readWriteMode"}
              /\ ~instance.built
         ELSE /\ (~instance.overridden /\ processEnv[name] # JsUndefined)
                 => raw = IF ENTRIES[name].type = "boolean"
                            THEN Bool(processEnv[name].s = TrueText)
                            ELSE processEnv[name]
              /\ IF LooseUndefined(raw) /\ ENTRIES[name].required
                   THEN configResult.kind = "error" /\ configResult.error = "mandatory"
                   ELSE /\ configResult.kind = "value"
                        /\ IF name = "CHAIN_ID"
                             THEN /\ configResult.value.t = "string"
                                  /\ HasHexPrefix(configResult.value.s)
                                  /\ IsNumeric(raw)
                                  /\ Number(configResult.value) = Number(raw)
                             ELSE configResult.value = raw

\* CHAIN_ID=298 in process.env: get('CHAIN_ID') returned '0x12a'
C19_Witness ==
  /\ configResult.op = "get"
  /\ configResult.name = "CHAIN_ID"
  /\ processEnv["CHAIN_ID"] = Str(<<"2", "9", "8">>)
  /\ ~instance.overridden
  /\ configResult.kind = "value"
  /\ configResult.value = Str(<<"0", "x", "1", "2", "a">>)

\* what a get or getAllMasked call does to the singleton
SingletonStep ==
  configResult'.op \in {"get", "getAllMasked"} =>
    IF instance.built
      THEN /\ configResult'.built = "reused"
           /\ instance' = instance
      ELSE /\ configResult'.built \in {"constructed", "failed"}
           /\ configResult'.built = "failed" =>
                /\ instance' = NoInstance
                /\ configResult'.kind = "error"
           /\ configResult'.built = "constructed" =>
                /\ instance'.built
                /\ instance'.constructions = 1

\* C24: over any sequence of get and getAllMasked calls the constructor
\* completes at most once, and an instance exists exactly when it has; a call
\* that finds the instance reuses it unchanged without constructing; a call
\* that finds none attempts the construction, and when the construction
\* fails no instance is installed and the call fails, so that the next call
\* attempts it again.
C24_SingletonConstructedAtMostOnce ==
  /\ [](instance.constructions <= 1 /\ (instance.built <=> instance.constructions = 1))
  /\ [][SingletonStep]_vars

\* a getAllMasked call after the construction: the instance was reused
C24_Witness ==
  /\ configResult.op = "getAllMasked"
  /\ configResult.built = "reused"
  /\ configResult.kind = "value"
  /\ instance.built
  /\ instance.constructions = 1

====
